---- MODULE Spec2Model ----
(***************************************************************************)
(* Model of studio_dashboard.py: a Streamlit script that is re-executed    *)
(* from top to bottom on every user interaction.  One action of the model  *)
(* is one interaction: the widget change, its on_change callback, and the  *)
(* script run(s) it triggers, up to the point where the page is settled.   *)
(*                                                                         *)
(* pandas values are modelled as tagged cells, so that a missing value     *)
(* (NaN / NaT), a text value and a number are always distinguishable.      *)
(* Ratios (CapacityUtilization, BookingRate, NoShowRate) are in percent.   *)
(***************************************************************************)
EXTENDS Integers, Sequences, FiniteSets, TLC

VARIABLES
    secrets,        \* st.secrets: a function from secret names to texts
    csv,            \* the parsed content of classes_cleaned.csv (pd.read_csv)
    session_state,  \* st.session_state: keys -> values (widget values included)
    heap,           \* the DataFrame objects: the st.cache_data entry, df, filtered
    out             \* what the last script run executed, computed and displayed

vars == <<secrets, csv, session_state, heap, out>>

(*************************** bounds of the model ***************************)
MaxRows == 3          \* rows of classes_cleaned.csv
MaxDay == 2           \* days the date picker can return: 1 .. MaxDay
MaxMinClasses == 3    \* largest value entered in the min-classes input

(****************************** pandas cells *******************************)
NaN == [dtype |-> "nan", s |-> "", n |-> 0]
Str(t) == [dtype |-> "object", s |-> t, n |-> 0]
Num(k) == [dtype |-> "number", s |-> "", n |-> k]
IsNa(c) == c.dtype = "nan"

\* An empty CSV field is read as NaN, any other text as itself.
Field(t) == IF t = "" THEN NaN ELSE Str(t)

DateText(d) == IF d < 10 THEN "2024-01-0" \o ToString(d) ELSE "2024-01-" \o ToString(d)

DateTexts == [d \in 1..31 |-> DateText(d)]
HourTexts == [h \in 0..23 |-> ToString(h)]

\* pd.to_datetime(..., errors="coerce"): a timestamp (day number), or NaT.
ToDatetime(c) ==
    IF c.dtype = "number" THEN c
    ELSE IF c.dtype = "object" /\ \E d \in 1..31 : DateTexts[d] = c.s
         THEN Num(CHOOSE d \in 1..31 : DateTexts[d] = c.s)
         ELSE NaN

\* pd.to_numeric(..., errors="coerce"): a number, or NaN.
ToNumeric(c) ==
    IF c.dtype = "number" THEN c
    ELSE IF c.dtype = "object" /\ \E h \in 0..23 : HourTexts[h] = c.s
         THEN Num(CHOOSE h \in 0..23 : HourTexts[h] = c.s)
         ELSE NaN

WeekdayCategories ==
    {"Monday", "Tuesday", "Wednesday", "Thursday", "Friday", "Saturday", "Sunday"}

\* pd.Categorical(col, categories=[Monday..Sunday]): a value outside the
\* categories becomes NaN.
Categorical(c) ==
    IF c.dtype = "object" /\ c.s \in WeekdayCategories THEN c ELSE NaN

(***************************** the input file ******************************)
FileRow(date, weekday, hour, disc, entr, cu, br, ns) ==
    [index |-> 0, Date |-> Field(date), Weekday |-> Field(weekday), Hour |-> Field(hour),
     Disciplina |-> Field(disc), Entrenador |-> Field(entr),
     CapacityUtilization |-> cu, BookingRate |-> br, NoShowRate |-> ns]

\* The rows a file is drawn from.  Among them: two instructors with the
\* same occupancy, a missing NoShowRate and a missing CapacityUtilization, a
\* non-numeric hour, an unparseable date, a weekday outside the categories,
\* and a missing discipline and instructor.
RowPool == <<
    FileRow("2024-01-01", "Monday",  "9",  "Yoga", "Ana",  Num(80),  Num(90),  Num(10)),
    FileRow("2024-01-02", "Tuesday", "9",  "Yoga", "Eva",  Num(60),  Num(70),  Num(0)),
    FileRow("2024-01-01", "Monday",  "9",  "Spin", "Luis", Num(80),  Num(80),  NaN),
    FileRow("2024-01-02", "Monday",  "x",  "Spin", "Luis", NaN,      NaN,      Num(20)),
    FileRow("not a date", "Tuesday", "10", "Yoga", "Eva",  Num(60),  Num(60),  Num(10)),
    FileRow("2024-01-01", "Funday",  "10", "",     "",     Num(100), Num(100), Num(0))
>>

\* Lexicographic order of the instructor names of the pool (sorted()).
NameOrder == <<"Ana", "Eva", "Luis">>

\* Files: up to MaxRows rows of the pool, in pool order.
FileIndexes ==
    { ix \in UNION { [1..k -> 1..Len(RowPool)] : k \in 1..MaxRows } :
        \A i \in 1..(Len(ix) - 1) : ix[i] <= ix[i + 1] }

\* pd.read_csv: the rows are labelled by a RangeIndex; a column whose fields
\* are all numerals is read as numbers, otherwise its fields stay text.
ReadCsv(ix) ==
    LET raw == [i \in 1..Len(ix) |-> RowPool[ix[i]]]
        numeric == \A i \in 1..Len(raw) : ~IsNa(ToNumeric(raw[i].Hour))
    IN  [i \in 1..Len(raw) |->
            [raw[i] EXCEPT !.index = i,
                           !.Hour = IF numeric THEN ToNumeric(@) ELSE @]]

\* load_data(): parse Date, make Weekday categorical.
load_data(file) ==
    [i \in 1..Len(file) |->
        [file[i] EXCEPT !.Date = ToDatetime(@), !.Weekday = Categorical(@)]]

(****************************** Filter Engine ******************************)
DatesOf(df) == { df[i].Date.n : i \in { j \in 1..Len(df) : ~IsNa(df[j].Date) } }
min_date(df) == CHOOSE d \in DatesOf(df) : \A e \in DatesOf(df) : d <= e
max_date(df) == CHOOSE d \in DatesOf(df) : \A e \in DatesOf(df) : d >= e

\* ["All"] + sorted(df[col].dropna().unique()), as the set of its entries.
OptionList(df, col) ==
    {"All"} \cup { df[i][col].s : i \in { j \in 1..Len(df) : ~IsNa(df[j][col]) } }

\* Comparisons of a column cell; a comparison with NaN / NaT is False.
CellGE(c, k) == c.dtype = "number" /\ c.n >= k.n
CellLE(c, k) == c.dtype = "number" /\ c.n <= k.n
CellEq(c, t) == c.dtype = "object" /\ c.s = t

\* The mask with the instructor filter left out.
MaskNoInstructor(r, date_range, discipline, instructor) ==
    /\ CellGE(r.Date, ToDatetime(Num(date_range[1])))
    /\ CellLE(r.Date, ToDatetime(Num(date_range[2])))
    /\ (discipline # "All" => CellEq(r.Disciplina, discipline))

\* The row mask of the three filters; date_range is the committed pair of the
\* date picker.
mask(r, date_range, discipline, instructor) ==
    /\ CellGE(r.Date, ToDatetime(Num(date_range[1])))
    /\ CellLE(r.Date, ToDatetime(Num(date_range[2])))
    /\ (discipline # "All" => CellEq(r.Disciplina, discipline))
    /\ (instructor # "All" => CellEq(r.Entrenador, instructor))

\* df[mask]
SelectRows(df, date_range, discipline, instructor) ==
    SelectSeq(df, LAMBDA r : mask(r, date_range, discipline, instructor))

\* The filtered rows written to the source object itself.
AliasedRef(src) == src

\* .copy(): the filtered rows are stored in a DataFrame object of their own.
CopyRef(src) == "filtered"

(*************************** Aggregation Engine ****************************)
NaNMean == [nan |-> TRUE, num |-> 0, den |-> 1]

RECURSIVE SumOf(_, _)
SumOf(rows, col) ==
    IF rows = <<>> THEN 0
    ELSE (IF IsNa(Head(rows)[col]) THEN 0 ELSE Head(rows)[col].n)
         + SumOf(Tail(rows), col)

CountOf(rows, col) == Len(SelectSeq(rows, LAMBDA r : ~IsNa(r[col])))

\* A mean that is 0 when no value is present.
MeanZeroIfNone(rows, col) ==
    [nan |-> FALSE, num |-> SumOf(rows, col),
     den |-> IF CountOf(rows, col) = 0 THEN 1 ELSE CountOf(rows, col)]

\* Series.mean(): the mean of the values that are not missing; NaN if none.
Mean(rows, col) ==
    IF CountOf(rows, col) = 0 THEN NaNMean
    ELSE [nan |-> FALSE, num |-> SumOf(rows, col), den |-> CountOf(rows, col)]

MeanGT(a, b) == ~a.nan /\ ~b.nan /\ a.num * b.den > b.num * a.den
MeanEQ(a, b) == ~a.nan /\ ~b.nan /\ a.num * b.den = b.num * a.den
MeanGE(a, b) == MeanGT(a, b) \/ MeanEQ(a, b)

\* The four KPI metrics.
Kpi(filtered) ==
    [total |-> Len(filtered),
     occupancy |-> Mean(filtered, "CapacityUtilization"),
     booking |-> Mean(filtered, "BookingRate"),
     noshow |-> Mean(filtered, "NoShowRate")]

RowsOf(filtered, name) == SelectSeq(filtered, LAMBDA r : CellEq(r.Entrenador, name))

\* groupby("Entrenador").agg(AvgOcc, AvgNoShow, N): one row per instructor
\* that occurs (rows with a missing key are dropped), in key order.
ScoreRow(filtered, name) ==
    [Entrenador |-> name,
     AvgOcc |-> Mean(RowsOf(filtered, name), "CapacityUtilization"),
     AvgNoShow |-> Mean(RowsOf(filtered, name), "NoShowRate"),
     N |-> Len(RowsOf(filtered, name))]

RECURSIVE ScoreFrom(_, _)
ScoreFrom(filtered, names) ==
    IF names = <<>> THEN <<>>
    ELSE (IF RowsOf(filtered, Head(names)) = <<>> THEN <<>>
          ELSE <<ScoreRow(filtered, Head(names))>>)
         \o ScoreFrom(filtered, Tail(names))

score(filtered) == ScoreFrom(filtered, NameOrder)

\* The order by AvgOcc alone.
SortsBeforeFirstKeyOnly(a, b) ==
    \/ ~a.AvgOcc.nan /\ b.AvgOcc.nan
    \/ MeanGT(a.AvgOcc, b.AvgOcc)

\* sort_values(["AvgOcc","N"], ascending=[False,False]): a precedes b when
\* its AvgOcc is larger, a NaN AvgOcc counting as last (na_position="last"),
\* and among equal AvgOcc when its N is larger.

SortsBefore(a, b) ==
    \/ ~a.AvgOcc.nan /\ b.AvgOcc.nan
    \/ MeanGT(a.AvgOcc, b.AvgOcc)
    \/ /\ (a.AvgOcc.nan /\ b.AvgOcc.nan) \/ MeanEQ(a.AvgOcc, b.AvgOcc)
       /\ a.N > b.N

\* Stable insertion of x into a sorted sequence.
RECURSIVE Insert(_, _)
Insert(x, sorted) ==
    IF sorted = <<>> THEN <<x>>
    ELSE IF SortsBefore(x, Head(sorted)) THEN <<x>> \o sorted
    ELSE <<Head(sorted)>> \o Insert(x, Tail(sorted))

RECURSIVE sort_values(_)
sort_values(rows) ==
    IF rows = <<>> THEN <<>>
    ELSE Insert(rows[Len(rows)], sort_values(SubSeq(rows, 1, Len(rows) - 1)))

\* The type coercion of the heatmap section, applied to the filtered frame.
Coerce(rows) ==
    [i \in 1..Len(rows) |->
        [rows[i] EXCEPT !.Weekday = Categorical(@), !.Hour = ToNumeric(@)]]

\* df.dropna(subset=["Weekday","Hour", value_col])
DropNa(df, value_col) ==
    SelectSeq(df, LAMBDA r : ~IsNa(r.Weekday) /\ ~IsNa(r.Hour) /\ ~IsNa(r[value_col]))

CellRows(d, w, h) == SelectSeq(d, LAMBDA r : r.Weekday.s = w /\ r.Hour.n = h)

\* Variants of the threshold: none, and a strict one.
KeepAll(n, min_n) == TRUE
KeepAbove(n, min_n) == n > min_n

\* out.query("n >= @min_n")
Keep(n, min_n) == n >= min_n

\* _heat_df: the cells (Weekday, Hour, value, n) of the observed groups that
\* have at least min_n rows.
_heat_df(df, value_col, min_n) ==
    LET d == DropNa(df, value_col)
        g == { <<d[i].Weekday.s, d[i].Hour.n>> : i \in 1..Len(d) }
        cells == { [Weekday |-> k[1], Hour |-> k[2],
                    value |-> Mean(CellRows(d, k[1], k[2]), value_col),
                    n |-> Len(CellRows(d, k[1], k[2]))] : k \in g }
    IN  { c \in cells : Keep(c.n, min_n) }

(****************************** Session Guard *****************************)
\* PASSCODE: the DASH_PASS secret, or the fallback default.
PASSCODE(sec) == IF "DASH_PASS" \in DOMAIN sec THEN sec["DASH_PASS"] ELSE "areve123"

NoKeys == [k \in {} |-> FALSE]

\* A widget returns the value kept under its key, or its default value.
WidgetValue(ss, key, default) == IF key \in DOMAIN ss THEN ss[key] ELSE default

\* Callbacks that do not compare the text: always, never authenticated.
LoginAlways(ss, sec) == [ss EXCEPT !["authenticated"] = TRUE]
LoginNever(ss, sec) == ss

\* _login, the on_change callback of the passcode input.  (st.rerun() has no
\* effect inside a callback; the script runs after the callback anyway.)
_login(ss, sec) ==
    IF ss["_pass_try"] = PASSCODE(sec) THEN [ss EXCEPT !["authenticated"] = TRUE] ELSE ss

\* A gate that prompts and lets the run go on.
GateWithoutStop(authenticated) == [prompt |-> ~authenticated, stop |-> FALSE]

\* The passcode gate: the prompt is shown, and the run stopped (st.stop()),
\* when the session is not authenticated.
Gate(authenticated) == [prompt |-> ~authenticated, stop |-> ~authenticated]

\* Deleting the authenticated key only.
ClearAuthenticatedOnly(ss) == [k \in DOMAIN ss \ {"authenticated"} |-> ss[k]]

\* st.session_state.clear()
Clear(ss) == NoKeys

DefaultMinClasses == 3

DashboardStages ==
    {"logout_button", "load_data", "filters", "kpi", "charts", "scorecard",
     "heatmaps", "table"}

NoOutput ==
    [stages |-> <<>>, guard_auth |-> FALSE, shown |-> {},
     kpi |-> Kpi(<<>>), score |-> <<>>, heat_called |-> FALSE,
     occ_df |-> {}, ns_df |-> {}, filtered |-> <<>>]

\* The part of the script after the gate and the logout button.
Dashboard(ss, hp, base) ==
    LET cached == IF hp.cache = <<>> THEN load_data(csv) ELSE hp.cache
        \* st.cache_data hands every run its own copy of the cached frame
        hp1 == [cache |-> cached, df |-> cached, filtered |-> <<>>]
        df == hp1.df
        date_range == WidgetValue(ss, "date_range", <<min_date(df), max_date(df)>>)
        discipline == WidgetValue(ss, "discipline", "All")
        instructor == WidgetValue(ss, "instructor", "All")
        ref == CopyRef("df")
        hp2 == [hp1 EXCEPT ![ref] = SelectRows(df, date_range, discipline, instructor)]
        empty == hp2[ref] = <<>>
        hp3 == IF empty THEN hp2 ELSE [hp2 EXCEPT ![ref] = Coerce(@)]
        min_n == WidgetValue(ss, "min_classes", DefaultMinClasses)
        occ == IF empty THEN {} ELSE _heat_df(hp3[ref], "CapacityUtilization", min_n)
        ns == IF empty THEN {} ELSE _heat_df(hp3[ref], "NoShowRate", min_n)
        \* widget values of this run; a widget that was not rendered loses its value
        ss1 == [k \in {"authenticated", "date_range", "discipline", "instructor"}
                      \cup (IF empty THEN {} ELSE {"min_classes"}) |->
                  CASE k = "authenticated" -> ss["authenticated"]
                    [] k = "date_range" -> date_range
                    [] k = "discipline" -> discipline
                    [] k = "instructor" -> instructor
                    [] k = "min_classes" -> min_n]
    IN  [ss |-> ss1,
         heap |-> hp3,
         rerun |-> FALSE,
         out |-> [base EXCEPT
            !.stages = @ \o <<"load_data", "filters", "kpi", "charts", "scorecard",
                              "heatmaps", "table">>,
            !.shown = @ \cup {"dashboard"}
                        \cup (IF empty THEN {"no_classes_info"} ELSE {})
                        \cup (IF ~empty /\ occ = {} THEN {"occ_not_enough_data"} ELSE {})
                        \cup (IF ~empty /\ ns = {} THEN {"ns_not_enough_data"} ELSE {}),
            !.kpi = Kpi(hp2[ref]),
            !.score = sort_values(score(hp2[ref])),
            !.heat_called = ~empty,
            !.occ_df = occ,
            !.ns_df = ns,
            !.filtered = hp3[ref]]]

\* One execution of the script; clicked: the run was triggered by "Log out".
Run(ss0, hp0, clicked) ==
    LET ss1 == IF "authenticated" \in DOMAIN ss0 THEN ss0
               ELSE [k \in DOMAIN ss0 \cup {"authenticated"} |->
                        IF k = "authenticated" THEN FALSE ELSE ss0[k]]
        gate == Gate(ss1["authenticated"])
        \* st.text_input(key="_pass_try") keeps its text in the session state
        ss2 == IF ~gate.prompt \/ "_pass_try" \in DOMAIN ss1 THEN ss1
               ELSE [k \in DOMAIN ss1 \cup {"_pass_try"} |->
                        IF k = "_pass_try" THEN "" ELSE ss1[k]]
        hp1 == [hp0 EXCEPT !.df = <<>>, !.filtered = <<>>]
        o1 == [NoOutput EXCEPT
                 !.guard_auth = ss1["authenticated"],
                 !.stages = <<"title">> \o (IF gate.prompt THEN <<"passcode_prompt">> ELSE <<>>),
                 !.shown = (IF gate.prompt THEN {"prompt"} ELSE {})
                           \cup (IF gate.prompt /\ ss2["_pass_try"] # ""
                                 THEN {"incorrect_passcode"} ELSE {})]
        o2 == [o1 EXCEPT !.stages = @ \o <<"logout_button">>]
    IN  IF gate.stop
        THEN [ss |-> ss2, heap |-> hp1, rerun |-> FALSE, out |-> o1]
        ELSE IF clicked
        THEN [ss |-> Clear(ss2), heap |-> hp1, rerun |-> TRUE, out |-> o2]
        ELSE Dashboard(ss2, hp1, o2)

\* The script runs, and runs again when it asked for a rerun (st.rerun()).
Settle(ss, hp, clicked) ==
    LET r == Run(ss, hp, clicked)
    IN  IF r.rerun THEN Run(r.ss, r.heap, FALSE) ELSE r

Apply(r) ==
    /\ session_state' = r.ss
    /\ heap' = r.heap
    /\ out' = r.out
    /\ UNCHANGED <<secrets, csv>>

(********************************* actions *********************************)
PasscodeTexts == {"", "areve123", "dash", "guess"}

\* No DASH_PASS secret (the fallback is used), a secret, an empty secret.
SecretStores ==
    { NoKeys, [k \in {"DASH_PASS"} |-> "dash"], [k \in {"DASH_PASS"} |-> ""] }

Files == { f \in { ReadCsv(ix) : ix \in FileIndexes } : DatesOf(load_data(f)) # {} }

\* A new session: the first run of the script, on an empty session state.
FirstRun ==
    LET r == Settle(NoKeys, [cache |-> <<>>, df |-> <<>>, filtered |-> <<>>], FALSE)
    IN  /\ session_state = r.ss
        /\ heap = r.heap
        /\ out = r.out

\* Any file, the fallback passcode.
Init ==
    /\ secrets = NoKeys
    /\ csv \in Files
    /\ FirstRun

\* Any secret store, a file of one row.
InitSession ==
    /\ secrets \in SecretStores
    /\ csv \in { f \in Files : Len(f) = 1 }
    /\ FirstRun

\* The user commits a new text in the passcode input: the text is stored,
\* _login runs, then the script.
SubmitPasscode(text) ==
    /\ "prompt" \in out.shown
    /\ text # session_state["_pass_try"]
    /\ Apply(Settle(_login([session_state EXCEPT !["_pass_try"] = text], secrets),
                    heap, FALSE))

\* The script is run again with no widget changed (the same text committed
\* again, or a rerun of the page).
Rerun ==
    /\ out.stages # <<>>
    /\ Apply(Settle(session_state, heap, FALSE))

\* The user clicks "Log out".
Logout ==
    /\ "dashboard" \in out.shown
    /\ Apply(Settle(session_state, heap, TRUE))

SetWidget(key, value) ==
    /\ "dashboard" \in out.shown
    /\ key \in DOMAIN session_state
    /\ value # session_state[key]
    /\ Apply(Settle([session_state EXCEPT ![key] = value], heap, FALSE))

\* The date picker commits a pair start <= end.
ChangeDateRange(a, b) ==
    /\ a <= b
    /\ SetWidget("date_range", <<a, b>>)

ChangeDiscipline(d) ==
    /\ d \in OptionList(heap.df, "Disciplina")
    /\ SetWidget("discipline", d)

ChangeInstructor(i) ==
    /\ i \in OptionList(heap.df, "Entrenador")
    /\ SetWidget("instructor", i)

\* The min-classes input exists only in a run whose view is not empty.
ChangeMinClasses(m) ==
    /\ "min_classes" \in DOMAIN session_state
    /\ SetWidget("min_classes", m)

Next ==
    \/ \E text \in PasscodeTexts : SubmitPasscode(text)
    \/ Rerun
    \/ Logout
    \/ \E a, b \in 1..MaxDay : ChangeDateRange(a, b)
    \/ \E d \in {"All", "Yoga", "Spin"} : ChangeDiscipline(d)
    \/ \E i \in {"All", "Ana", "Eva", "Luis"} : ChangeInstructor(i)
    \/ \E m \in 1..MaxMinClasses : ChangeMinClasses(m)

Spec == Init /\ [][Next]_vars

SpecSession == InitSession /\ [][Next]_vars

(******************************** properties *******************************)
Authenticated == session_state["authenticated"]
DashboardShown == "dashboard" \in out.shown
RanPipeline == \E i \in 1..Len(out.stages) : out.stages[i] \in DashboardStages
SourceFrame == load_data(csv)

\* C1: a run that finds authenticated = false at the gate executes the title
\* and the passcode prompt and nothing else: no dashboard stage runs, no
\* frame is loaded or filtered, nothing of the dashboard is computed or
\* shown; so a run in which a dashboard stage executed passed the gate with
\* authenticated = true.
C1_GateHaltsRun ==
    /\ ~out.guard_auth =>
          /\ out.stages = <<"title", "passcode_prompt">>
          /\ "prompt" \in out.shown
          /\ ~DashboardShown
          /\ heap.df = <<>> /\ heap.filtered = <<>> /\ out.filtered = <<>>
          /\ out.score = <<>> /\ ~out.heat_called
    /\ RanPipeline => out.guard_auth

\* The gate stops a run of a session that has loaded the data before (after
\* a logout), with a wrong passcode entered.
C1_Witness ==
    /\ ~out.guard_auth
    /\ heap.cache # <<>>
    /\ "incorrect_passcode" \in out.shown

\* C2 as stated: submitting any text other than the passcode, the empty
\* text included, leaves authenticated false and shows the incorrect-passcode
\* message in the next run.
C2_Original ==
    [][\A text \in PasscodeTexts :
          (SubmitPasscode(text) /\ text # PASSCODE(secrets)) =>
              /\ ~session_state'["authenticated"]
              /\ "incorrect_passcode" \in out'.shown]_vars

\* C2 amended: submitting a text other than the passcode leaves authenticated
\* false and the prompt shown; the incorrect-passcode message is shown exactly
\* when the text is not empty.  Running the script again on the same text
\* changes nothing.
C2_WrongPasscode ==
    [][/\ \A text \in PasscodeTexts :
             (SubmitPasscode(text) /\ text # PASSCODE(secrets)) =>
                 /\ ~session_state'["authenticated"]
                 /\ session_state'["_pass_try"] = text
                 /\ "prompt" \in out'.shown
                 /\ ("incorrect_passcode" \in out'.shown) <=> (text # "")
       /\ (Rerun /\ "prompt" \in out.shown) => UNCHANGED vars]_vars

\* A wrong, non-empty text has been submitted.
C2_Witness ==
    /\ ~Authenticated
    /\ session_state["_pass_try"] = "guess"
    /\ "incorrect_passcode" \in out.shown

\* C3: a session starts with authenticated = false, and submitting the
\* passcode sets authenticated and runs the script again past the gate: the
\* pipeline runs, neither the prompt nor the incorrect-passcode message is
\* shown.
C3_Login ==
    /\ ~Authenticated
    /\ [][\A text \in PasscodeTexts :
             (SubmitPasscode(text) /\ text = PASSCODE(secrets)) =>
                 /\ session_state'["authenticated"]
                 /\ out'.guard_auth
                 /\ out'.stages = <<"title", "logout_button", "load_data", "filters",
                                    "kpi", "charts", "scorecard", "heatmaps", "table">>
                 /\ out'.shown \cap {"prompt", "incorrect_passcode"} = {}
                 /\ "dashboard" \in out'.shown]_vars

\* The passcode has been submitted: the dashboard is shown, the passcode
\* input is gone.
C3_Witness ==
    /\ Authenticated
    /\ DashboardShown
    /\ "_pass_try" \notin DOMAIN session_state

\* C4: a logout ends in the state of a new session: authenticated = false,
\* an empty passcode text, no other key (no filter selection), the prompt
\* shown without the incorrect-passcode message, nothing of the dashboard.
C4_Logout ==
    [][Logout =>
          /\ DOMAIN session_state' = {"authenticated", "_pass_try"}
          /\ ~session_state'["authenticated"]
          /\ session_state'["_pass_try"] = ""
          /\ out'.shown = {"prompt"}
          /\ out'.stages = <<"title", "passcode_prompt">>
          /\ out'.filtered = <<>>]_vars

\* A session that has shown the dashboard is back at the bare prompt.
C4_Witness ==
    /\ heap.cache # <<>>
    /\ out.shown = {"prompt"}
    /\ DOMAIN session_state = {"authenticated", "_pass_try"}

\* C5: the filtered view holds exactly the rows of the dataset whose date is
\* present and within the selected range, bounds included, and that match the
\* selected discipline and instructor unless "All" is selected; in the
\* dataset's order, with their dates, disciplines and instructors.
InView(r) ==
    /\ ~IsNa(r.Date)
    /\ session_state["date_range"][1] <= r.Date.n
    /\ r.Date.n <= session_state["date_range"][2]
    /\ session_state["discipline"] = "All" \/ r.Disciplina = Str(session_state["discipline"])
    /\ session_state["instructor"] = "All" \/ r.Entrenador = Str(session_state["instructor"])

C5_FilteredView ==
    DashboardShown =>
        /\ { out.filtered[i].index : i \in 1..Len(out.filtered) }
              = { i \in 1..Len(SourceFrame) : InView(SourceFrame[i]) }
        /\ \A i \in 1..Len(out.filtered) :
              /\ i > 1 => out.filtered[i - 1].index < out.filtered[i].index
              /\ LET r == SourceFrame[out.filtered[i].index]
                 IN  /\ out.filtered[i].Date = r.Date
                     /\ out.filtered[i].Disciplina = r.Disciplina
                     /\ out.filtered[i].Entrenador = r.Entrenador
                     /\ ~IsNa(r.Date)

\* Both selectors are set, the range is a single day, and the view keeps some
\* rows and drops others, one of them for its missing date.
C5_Witness ==
    /\ DashboardShown
    /\ session_state["discipline"] # "All"
    /\ session_state["instructor"] # "All"
    /\ session_state["date_range"][1] = session_state["date_range"][2]
    /\ out.filtered # <<>>
    /\ Len(out.filtered) < Len(SourceFrame)
    /\ \E i \in 1..Len(SourceFrame) : IsNa(SourceFrame[i].Date)

\* C6: a run of the dashboard leaves the cached frame and the run's source
\* frame df equal to the loaded dataset, whatever the heatmap section writes
\* to the filtered frame; and two successive runs with the same filter
\* selections have the same filtered view.
SameSelections ==
    /\ session_state'["date_range"] = session_state["date_range"]
    /\ session_state'["discipline"] = session_state["discipline"]
    /\ session_state'["instructor"] = session_state["instructor"]

C6_SourceUnchanged ==
    [][DashboardShown' =>
          /\ heap'.df = SourceFrame
          /\ heap'.cache = SourceFrame
          /\ heap.cache # <<>> => heap'.cache = heap.cache
          /\ (DashboardShown /\ SameSelections) => out'.filtered = out.filtered]_vars

\* The coercion changed the Hour column of the filtered frame: a row of the
\* view has a text hour in the source frame.
C6_Witness ==
    /\ DashboardShown
    /\ \E i \in 1..Len(out.filtered) :
          /\ heap.df[out.filtered[i].index].Hour.dtype = "object"
          /\ out.filtered[i].Hour.dtype # "object"

\* C7 as stated: in the scorecard each row's mean occupancy is >= the next
\* row's, and of two adjacent rows with equal mean occupancy the earlier has
\* the larger or equal N.
C7_Original ==
    DashboardShown =>
        \A i \in 1..(Len(out.score) - 1) :
            /\ MeanGE(out.score[i].AvgOcc, out.score[i + 1].AvgOcc)
            /\ MeanEQ(out.score[i].AvgOcc, out.score[i + 1].AvgOcc)
                  => out.score[i].N >= out.score[i + 1].N

\* C7 amended: the scorecard has one row per instructor of the view, with the
\* means and the row count of that instructor's rows; the rows whose mean
\* occupancy is defined come first, each with a mean occupancy >= the next
\* one's and, when equal, an N >= the next one's; the rows whose mean
\* occupancy is missing come last.
InstructorsOf(rows) ==
    { rows[i].Entrenador.s : i \in { j \in 1..Len(rows) : ~IsNa(rows[j].Entrenador) } }

C7_Scorecard ==
    DashboardShown =>
        /\ { out.score[i].Entrenador : i \in 1..Len(out.score) } = InstructorsOf(out.filtered)
        /\ Len(out.score) = Cardinality(InstructorsOf(out.filtered))
        /\ \A i \in 1..Len(out.score) :
              LET mine == SelectSeq(out.filtered,
                              LAMBDA r : r.Entrenador = Str(out.score[i].Entrenador))
              IN  /\ out.score[i].N = Len(mine)
                  /\ out.score[i].AvgOcc = Mean(mine, "CapacityUtilization")
                  /\ out.score[i].AvgNoShow = Mean(mine, "NoShowRate")
        /\ \A i \in 1..(Len(out.score) - 1) :
              \/ out.score[i + 1].AvgOcc.nan
              \/ /\ MeanGE(out.score[i].AvgOcc, out.score[i + 1].AvgOcc)
                 /\ MeanEQ(out.score[i].AvgOcc, out.score[i + 1].AvgOcc)
                       => out.score[i].N >= out.score[i + 1].N

\* Two instructors have the same mean occupancy and different N, and the one
\* with the larger N, the later in name order, is listed first.
C7_Witness ==
    /\ DashboardShown
    /\ \E i \in 1..(Len(out.score) - 1) :
          /\ MeanEQ(out.score[i].AvgOcc, out.score[i + 1].AvgOcc)
          /\ out.score[i].N > out.score[i + 1].N
          /\ out.score[i].Entrenador = "Luis"

\* C8: every cell of the two heatmap frames has n >= the min-classes value,
\* which is >= 1, n being the number of rows of the view with the cell's
\* weekday and hour and a value of the metric.
Supporting(w, h, col) ==
    { i \in 1..Len(out.filtered) :
        /\ out.filtered[i].Weekday = Str(w)
        /\ out.filtered[i].Hour = Num(h)
        /\ ~IsNa(out.filtered[i][col]) }

C8_Threshold ==
    out.heat_called =>
        /\ session_state["min_classes"] >= 1
        /\ \A c \in out.occ_df :
              /\ c.n >= session_state["min_classes"]
              /\ c.n = Cardinality(Supporting(c.Weekday, c.Hour, "CapacityUtilization"))
        /\ \A c \in out.ns_df :
              /\ c.n >= session_state["min_classes"]
              /\ c.n = Cardinality(Supporting(c.Weekday, c.Hour, "NoShowRate"))

\* With a threshold above 1, one cell is kept and another combination of the
\* view, with fewer rows, is dropped.
C8_Witness ==
    /\ out.heat_called
    /\ session_state["min_classes"] > 1
    /\ out.occ_df # {}
    /\ \E i \in 1..Len(out.filtered) :
          /\ ~IsNa(out.filtered[i].Weekday) /\ ~IsNa(out.filtered[i].Hour)
          /\ ~IsNa(out.filtered[i].CapacityUtilization)
          /\ \A c \in out.occ_df :
                Str(c.Weekday) # out.filtered[i].Weekday \/ Num(c.Hour) # out.filtered[i].Hour

\* A (weekday, hour) combination of a row of the view, as a cell of a frame.
HasCell(frame, r) ==
    \E c \in frame : Str(c.Weekday) = r.Weekday /\ Num(c.Hour) = r.Hour

\* C9 as stated: with the min-classes value 1, every (weekday, hour)
\* combination of a row of the view is a cell of each heatmap frame.
C9_Original ==
    (out.heat_called /\ session_state["min_classes"] = 1) =>
        \A i \in 1..Len(out.filtered) :
            (~IsNa(out.filtered[i].Weekday) /\ ~IsNa(out.filtered[i].Hour)) =>
                /\ HasCell(out.occ_df, out.filtered[i])
                /\ HasCell(out.ns_df, out.filtered[i])

\* C9 amended: with the min-classes value 1, every (weekday, hour)
\* combination of a row of the view whose value of the heatmap's metric is
\* not missing is a cell of that heatmap's frame.
C9_NothingDroppedAtOne ==
    (out.heat_called /\ session_state["min_classes"] = 1) =>
        \A i \in 1..Len(out.filtered) :
            (~IsNa(out.filtered[i].Weekday) /\ ~IsNa(out.filtered[i].Hour)) =>
                /\ ~IsNa(out.filtered[i].CapacityUtilization)
                      => HasCell(out.occ_df, out.filtered[i])
                /\ ~IsNa(out.filtered[i].NoShowRate)
                      => HasCell(out.ns_df, out.filtered[i])

\* With the value 1, both frames have cells, and a row with a weekday and an
\* hour but no NoShowRate has its combination only in the occupancy frame.
C9_Witness ==
    /\ out.heat_called
    /\ session_state["min_classes"] = 1
    /\ out.ns_df # {}
    /\ \E i \in 1..Len(out.filtered) :
          /\ ~IsNa(out.filtered[i].Weekday) /\ ~IsNa(out.filtered[i].Hour)
          /\ IsNa(out.filtered[i].NoShowRate)
          /\ HasCell(out.occ_df, out.filtered[i])
          /\ ~HasCell(out.ns_df, out.filtered[i])

EmptyView == DashboardShown /\ out.filtered = <<>>

RunCompleted == out.stages[Len(out.stages)] = "table"

\* C10 as stated: on an empty view the run completes, the total is 0, the
\* three means are NaN, the heatmap builder returns an empty frame and the
\* not-enough-data notice of each heatmap is shown.
C10_Original ==
    EmptyView =>
        /\ RunCompleted
        /\ out.kpi.total = 0
        /\ out.kpi.occupancy.nan /\ out.kpi.booking.nan /\ out.kpi.noshow.nan
        /\ out.heat_called /\ out.occ_df = {} /\ out.ns_df = {}
        /\ {"occ_not_enough_data", "ns_not_enough_data"} \subseteq out.shown

\* C10 amended: on an empty view the run completes, the total is 0, the three
\* means are NaN, the heatmap builder is not called, and one notice that no
\* class matches the filters is shown in place of both heatmaps and of their
\* not-enough-data notices.
C10_EmptyView ==
    EmptyView =>
        /\ RunCompleted
        /\ out.kpi.total = 0
        /\ out.kpi.occupancy.nan /\ out.kpi.booking.nan /\ out.kpi.noshow.nan
        /\ out.score = <<>>
        /\ ~out.heat_called /\ out.occ_df = {} /\ out.ns_df = {}
        /\ "no_classes_info" \in out.shown
        /\ out.shown \cap {"occ_not_enough_data", "ns_not_enough_data"} = {}

\* The view is empty although the selected range holds rows of the dataset.
C10_Witness ==
    /\ EmptyView
    /\ \E i \in 1..Len(SourceFrame) :
          /\ ~IsNa(SourceFrame[i].Date)
          /\ session_state["date_range"][1] <= SourceFrame[i].Date.n
          /\ SourceFrame[i].Date.n <= session_state["date_range"][2]

====
